---- MODULE Spec2Model ----
(***************************************************************************)
(* A model of soul-coder's edit tool (src/tools/edit.rs) and truncation    *)
(* engine (src/truncate.rs), and of the read and grep tools that call the  *)
(* engine (src/tools/read.rs, src/tools/grep.rs).                          *)
(*                                                                         *)
(* Text is a sequence of characters.  A character is a short string naming *)
(* it: "a" and "b" are ordinary one-byte letters, "sp" is U+0020, "nl" is  *)
(* U+000A, "cr" is U+000D, "apos" is U+0027 and "rsq" is U+2019 (RIGHT     *)
(* SINGLE QUOTATION MARK, three bytes in UTF-8).  Offsets into a text are  *)
(* counted in characters where Rust only ever produces offsets on          *)
(* character boundaries (str::match_indices), and in bytes where the code  *)
(* does byte arithmetic (truncate.rs).                                     *)
(***************************************************************************)
EXTENDS Integers, Sequences, FiniteSets, TLC

VARIABLES fs, fs0, calls, trunc, tool

vars == <<fs, fs0, calls, trunc, tool>>

(***************************************************************************)
(* Bounds of the model.                                                    *)
(***************************************************************************)
MaxDoc == 3

MaxOld == 2

MaxText == 5

MaxLines == 4

MaxBytes == 8

MaxConcDoc == 2

\* MAX_LINES and MAX_BYTES as the read tool passes them to truncate_head,
\* scaled to the texts of the model
ReadLineBudget == 2

ReadByteBudget == 4

MaxGrepDoc == 2

MaxGrepContext == 1

\* MAX_BYTES, GREP_MAX_LINE_LENGTH and MAX_MATCHES of the grep tool, scaled
\* to the texts of the model
GrepByteBudget == 16

GrepLineWidth == 3

GrepMaxMatches == 2

(***************************************************************************)
(* Characters.                                                             *)
(***************************************************************************)
EditChars == {"apos", "rsq", "sp", "nl"}

TruncChars == {"a", "rsq", "nl"}

\* char::len_utf8
ByteLen(c) ==
  CASE c = "rsq" -> 3
    [] c \in {"lsq", "ldq", "rdq", "endash", "emdash", "nnbsp"} -> 3
    [] c = "nbsp" -> 2
    [] OTHER -> 1

\* char::is_whitespace, which str::trim_end uses (White_Space includes
\* U+00A0 and U+202F)
IsWhitespace(c) == c \in {"sp", "nl", "cr", "tab", "nbsp", "nnbsp"}

SeqsUpTo(S, n) == UNION {[1..k -> S] : k \in 0..n}

Min(a, b) == IF a < b THEN a ELSE b

\* str::len: the byte length of a text
RECURSIVE StrLen(_)
StrLen(t) == IF t = <<>> THEN 0 ELSE ByteLen(Head(t)) + StrLen(Tail(t))

(***************************************************************************)
(* str::lines: split at "\n", drop the line terminator ("\n" or "\r\n"),   *)
(* and yield no final empty line after a trailing "\n".                    *)
(***************************************************************************)
StripCr(seg) ==
  IF seg # <<>> /\ seg[Len(seg)] = "cr" THEN SubSeq(seg, 1, Len(seg) - 1) ELSE seg

RECURSIVE LinesFrom(_, _)
LinesFrom(t, cur) ==
  IF t = <<>> THEN (IF cur = <<>> THEN <<>> ELSE <<cur>>)
  ELSE IF Head(t) = "nl" THEN <<StripCr(cur)>> \o LinesFrom(Tail(t), <<>>)
  ELSE LinesFrom(Tail(t), Append(cur, Head(t)))

Lines(t) == LinesFrom(t, <<>>)

\* [&str]::join("\n")
RECURSIVE Join(_)
Join(ls) ==
  IF ls = <<>> THEN <<>>
  ELSE IF Len(ls) = 1 THEN ls[1]
  ELSE ls[1] \o <<"nl">> \o Join(Tail(ls))

(***************************************************************************)
(* The edit tool's pure helpers.                                           *)
(***************************************************************************)
\* str::trim_end
RECURSIVE TrimEnd(_)
TrimEnd(line) ==
  IF line # <<>> /\ IsWhitespace(line[Len(line)])
  THEN TrimEnd(SubSeq(line, 1, Len(line) - 1))
  ELSE line

\* the chain of str::replace calls of normalize_for_fuzzy, on one character
FoldChar(c) ==
  CASE c \in {"lsq", "rsq"} -> "apos"
    [] c \in {"ldq", "rdq"} -> "dq"
    [] c \in {"endash", "emdash"} -> "-"
    [] c \in {"nbsp", "nnbsp"} -> "sp"
    [] OTHER -> c

NormalizeLine(line) ==
  LET trimmed == TrimEnd(line)
  IN  [i \in 1..Len(trimmed) |-> FoldChar(trimmed[i])]

normalize_for_fuzzy(text) ==
  LET ls == Lines(text)
  IN  Join([i \in 1..Len(ls) |-> NormalizeLine(ls[i])])

\* str::match_indices: the start offsets (0-based) of the matches of needle
\* in hay, found left to right, the search resuming after the end of each
\* match; an empty needle matches at every character boundary, the end of
\* hay included.
RECURSIVE MatchFrom(_, _, _)
MatchFrom(hay, needle, i) ==
  IF i + Len(needle) > Len(hay) THEN <<>>
  ELSE IF SubSeq(hay, i + 1, i + Len(needle)) = needle
       THEN <<i>> \o MatchFrom(hay, needle, i + Len(needle))
       ELSE MatchFrom(hay, needle, i + 1)

match_indices(hay, needle) ==
  IF needle = <<>> THEN [k \in 1..(Len(hay) + 1) |-> k - 1]
  ELSE MatchFrom(hay, needle, 0)

\* replacen with a slip: the replacement is put in front of the first match,
\* which stays
replacen_keeping_match(hay, from, to) ==
  LET m == match_indices(hay, from)
  IN  IF m = <<>> THEN hay
      ELSE SubSeq(hay, 1, m[1]) \o to \o SubSeq(hay, m[1] + 1, Len(hay))

\* str::replacen(from, to, 1): the first match replaced, hay itself when
\* there is none
replacen(hay, from, to) ==
  LET m == match_indices(hay, from)
  IN  IF m = <<>> THEN hay
      ELSE SubSeq(hay, 1, m[1]) \o to \o SubSeq(hay, m[1] + Len(from) + 1, Len(hay))

\* str::trim_end_matches('/')
RECURSIVE TrimEndSlashes(_)
TrimEndSlashes(p) ==
  IF p # <<>> /\ p[Len(p)] = "/" THEN TrimEndSlashes(SubSeq(p, 1, Len(p) - 1)) ELSE p

\* resolve_path with a slip: every relative path names the same file
resolve_path_one_file(cwd, path) ==
  IF path # <<>> /\ path[1] = "/" THEN path
  ELSE TrimEndSlashes(cwd) \o <<"/", "f">>

resolve_path(cwd, path) ==
  IF path # <<>> /\ path[1] = "/" THEN path
  ELSE TrimEndSlashes(cwd) \o <<"/">> \o path

(***************************************************************************)
(* EditTool::execute between its second await (read_to_string) and its     *)
(* third (write): the exact phase, then the fuzzy phase.  The value is the *)
(* (new_content, method) pair the code goes on to write, or the error it   *)
(* returns.                                                                *)
(***************************************************************************)
Planned(text, method) == [kind |-> "write", count |-> 0, new_content |-> text, method |-> method]

Refused(kind, n) == [kind |-> kind, count |-> n, new_content |-> <<>>, method |-> "none"]

\* the fuzzy phase with a slip: old is compared as given, not normalized
FuzzyPhase_RawOld(content, old_text, new_text) ==
  LET norm_content == normalize_for_fuzzy(content)
      fuzzy_matches == match_indices(norm_content, old_text)
  IN  IF Len(fuzzy_matches) = 1
      THEN Planned(replacen(norm_content, old_text, new_text), "fuzzy")
      ELSE IF Len(fuzzy_matches) > 1
      THEN Refused("ambiguous_fuzzy", Len(fuzzy_matches))
      ELSE Refused("not_found", 0)

\* the fuzzy phase with a slip: of several normalized matches the first is
\* taken
FuzzyPhase_FirstOfMany(content, old_text, new_text) ==
  LET norm_content == normalize_for_fuzzy(content)
      norm_old == normalize_for_fuzzy(old_text)
      fuzzy_matches == match_indices(norm_content, norm_old)
  IN  IF Len(fuzzy_matches) >= 1
      THEN Planned(replacen(norm_content, norm_old, new_text), "fuzzy")
      ELSE Refused("not_found", 0)

FuzzyPhase(content, old_text, new_text) ==
  LET norm_content == normalize_for_fuzzy(content)
      norm_old == normalize_for_fuzzy(old_text)
      fuzzy_matches == match_indices(norm_content, norm_old)
  IN  IF Len(fuzzy_matches) = 1
      THEN LET fuzzy_pos == fuzzy_matches[1]
               norm_lines_before == Len(Lines(SubSeq(norm_content, 1, fuzzy_pos)))
               original_lines == Lines(content)
               search_lines == Lines(old_text)
           IN  IF norm_lines_before > 0 /\ norm_lines_before <= Len(original_lines)
               THEN LET start_line == norm_lines_before - 1
                        end_line == Min(start_line + Len(search_lines), Len(original_lines))
                        original_section ==
                          Join(SubSeq(original_lines, start_line + 1, end_line))
                    IN  Planned(replacen(content, original_section, new_text), "fuzzy")
               ELSE Planned(replacen(norm_content, norm_old, new_text), "fuzzy")
      ELSE IF Len(fuzzy_matches) > 1
      THEN Refused("ambiguous_fuzzy", Len(fuzzy_matches))
      ELSE Refused("not_found", 0)

\* the exact phase with a slip: of several matches the first is replaced
ExactPhase_FirstOfMany(content, old_text, new_text) ==
  LET matches == match_indices(content, old_text)
  IN  IF Len(matches) >= 1
      THEN Planned(replacen(content, old_text, new_text), "exact")
      ELSE Refused("not_found", 0)

ExactPhase(content, old_text, new_text) ==
  LET matches == match_indices(content, old_text)
  IN  IF Len(matches) = 1
      THEN Planned(replacen(content, old_text, new_text), "exact")
      ELSE IF Len(matches) > 1
      THEN Refused("ambiguous_exact", Len(matches))
      ELSE FuzzyPhase(content, old_text, new_text)

(***************************************************************************)
(* unified_diff.  The line diff itself is the `similar` crate's            *)
(* (TextDiff::from_lines, iter_all_changes, UnifiedDiff's Display); it is  *)
(* modelled here by what the crate documents: lines keep their terminator, *)
(* the changes are an edit script along a longest common subsequence, and  *)
(* displaying a UnifiedDiff writes its header and every hunk.              *)
(***************************************************************************)
\* similar's DiffableStr::tokenize_lines: each line with its terminator
\* ("\n", "\r\n" or a lone "\r"), a last unterminated line as it is
RECURSIVE TokensFrom(_, _)
TokensFrom(t, cur) ==
  IF t = <<>> THEN (IF cur = <<>> THEN <<>> ELSE <<cur>>)
  ELSE IF Head(t) = "nl" THEN <<Append(cur, "nl")>> \o TokensFrom(Tail(t), <<>>)
  ELSE IF Head(t) = "cr" /\ (Tail(t) = <<>> \/ Head(Tail(t)) # "nl")
       THEN <<Append(cur, "cr")>> \o TokensFrom(Tail(t), <<>>)
  ELSE TokensFrom(Tail(t), Append(cur, Head(t)))

tokenize_lines(t) == TokensFrom(t, <<>>)

RECURSIVE LcsLen(_, _)
LcsLen(a, b) ==
  IF a = <<>> \/ b = <<>> THEN 0
  ELSE IF Head(a) = Head(b) THEN 1 + LcsLen(Tail(a), Tail(b))
  ELSE LET x == LcsLen(Tail(a), b)
           y == LcsLen(a, Tail(b))
       IN  IF x >= y THEN x ELSE y

\* TextDiff::iter_all_changes: the changes in order, each a tag and a line
RECURSIVE Changes(_, _)
Changes(a, b) ==
  IF a = <<>> THEN [i \in 1..Len(b) |-> [tag |-> "Insert", value |-> b[i]]]
  ELSE IF b = <<>> THEN [i \in 1..Len(a) |-> [tag |-> "Delete", value |-> a[i]]]
  ELSE IF Head(a) = Head(b)
       THEN <<[tag |-> "Equal", value |-> Head(a)]>> \o Changes(Tail(a), Tail(b))
  ELSE IF LcsLen(Tail(a), b) >= LcsLen(a, Tail(b))
       THEN <<[tag |-> "Delete", value |-> Head(a)]>> \o Changes(Tail(a), b)
       ELSE <<[tag |-> "Insert", value |-> Head(b)]>> \o Changes(a, Tail(b))

\* Change::missing_newline
missing_newline(change) ==
  LET v == change.value IN ~(v # <<>> /\ v[Len(v)] \in {"nl", "cr"})

\* Display of a Change: the line, and a newline when it has none
ChangeDisplay(change) ==
  change.value \o (IF missing_newline(change) THEN <<"nl">> ELSE <<>>)

RECURSIVE Concat(_)
Concat(ss) == IF ss = <<>> THEN <<>> ELSE Head(ss) \o Concat(Tail(ss))

\* Display of a ChangeTag, and the match of unified_diff on it
Sign(tag) == CASE tag = "Delete" -> "-" [] tag = "Insert" -> "+" [] OTHER -> "sp"

ContextRadius == 3

\* Display of a UnifiedDiff with header ("", ""): nothing when nothing
\* changed; else "--- \n+++ \n" and the hunk: its "@@ -l,s +l,s @@" line
\* (the one character "hunk_header" here), then the changed lines with up to
\* ContextRadius lines of context around them, each behind its sign, a line
\* that lacks its newline followed by "\ No newline at end of file" (the
\* one character "no_newline_hint" here).  Changes further apart than
\* 2 * ContextRadius lines would make several hunks; one edit of a text this
\* small never makes them.
UnifiedDiffDisplay(changes) ==
  LET changed == {i \in 1..Len(changes) : changes[i].tag # "Equal"}
      first == CHOOSE i \in changed : \A j \in changed : i <= j
      last == CHOOSE i \in changed : \A j \in changed : j <= i
      from == IF first - ContextRadius < 1 THEN 1 ELSE first - ContextRadius
      to == Min(Len(changes), last + ContextRadius)
      HunkLine(c) ==
        <<Sign(c.tag)>> \o c.value
          \o (IF missing_newline(c) THEN <<"nl", "no_newline_hint", "nl">> ELSE <<>>)
  IN  IF changed = {} THEN <<>>
      ELSE <<"-", "-", "-", "sp", "nl", "+", "+", "+", "sp", "nl", "hunk_header", "nl">>
             \o Concat([i \in 1..(to - from + 1) |-> HunkLine(changes[from + i - 1])])

unified_diff(old, new, path) ==
  LET changes == Changes(tokenize_lines(old), tokenize_lines(new))
      Body(c) ==
        <<Sign(c.tag)>> \o ChangeDisplay(c)
          \o (IF missing_newline(c) THEN <<"nl">> ELSE <<>>)
  IN  <<"-", "-", "-", "sp", "a", "/">> \o path \o <<"nl">>
        \o <<"+", "+", "+", "sp", "b", "/">> \o path \o <<"nl">>
        \o UnifiedDiffDisplay(changes)
        \o Concat([i \in 1..Len(changes) |-> Body(changes[i])])

\* the first line (1-based) at which the two documents differ, 1 when the
\* lines they share are equal
first_changed_line(content, new_content) ==
  LET a == Lines(content)
      b == Lines(new_content)
      differing == {i \in 1..Min(Len(a), Len(b)) : a[i] # b[i]}
  IN  IF differing = {} THEN 1
      ELSE CHOOSE i \in differing : \A j \in differing : i <= j

(***************************************************************************)
(* The edit tool as a state machine.  fs is the VirtualFs: a function from *)
(* the paths that exist to their documents.  calls holds, per call of      *)
(* EditTool::execute, its arguments, its position (pc) among the awaits of *)
(* the function, its locals and, once it has returned, its result.  fs0 is *)
(* a history variable: the file system before any call ran.                *)
(***************************************************************************)
Cwd == <<"/", "p">>

FilePath == <<"/", "p", "/", "f">>

Docs == SeqsUpTo(EditChars, MaxDoc)

OldTexts == SeqsUpTo(EditChars, MaxOld)

NewTexts == {<<>>, <<"b">>, <<"a", "nl">>}

RequestPaths == {<<>>, <<"f">>}

NoResult == [kind |-> "none", count |-> 0, method |-> "none", content |-> <<>>,
             first_changed_line |-> 0]

Error(kind, n) == [kind |-> kind, count |-> n, method |-> "none", content |-> <<>>,
                   first_changed_line |-> 0]

IdleCall == [pc |-> "idle", path |-> <<>>, old |-> <<>>, new |-> <<>>,
             resolved |-> <<>>, content |-> <<>>, new_content |-> <<>>,
             method |-> "none", result |-> NoResult]

Return(c, result) ==
  calls' = [calls EXCEPT ![c].pc = "done", ![c].result = result]

\* the argument checks with a slip: old = new is let through
Execute_NoIdenticalCheck(c, path, old_text, new_text) ==
  /\ calls[c].pc = "idle"
  /\ LET call == [calls[c] EXCEPT !.path = path, !.old = old_text, !.new = new_text]
     IN  IF path = <<>>
         THEN calls' = [calls EXCEPT ![c] = [call EXCEPT !.pc = "done",
                                               !.result = Error("missing_path", 0)]]
         ELSE IF old_text = <<>>
         THEN calls' = [calls EXCEPT ![c] = [call EXCEPT !.pc = "done",
                                               !.result = Error("missing_old", 0)]]
         ELSE calls' = [calls EXCEPT ![c] = [call EXCEPT !.pc = "exists",
                                               !.resolved = resolve_path(Cwd, path)]]
  /\ UNCHANGED <<fs, fs0, trunc, tool>>

\* execute up to its first await: the arguments are checked, the path resolved
Execute(c, path, old_text, new_text) ==
  /\ calls[c].pc = "idle"
  /\ LET call == [calls[c] EXCEPT !.path = path, !.old = old_text, !.new = new_text]
     IN  IF path = <<>>
         THEN calls' = [calls EXCEPT ![c] = [call EXCEPT !.pc = "done",
                                               !.result = Error("missing_path", 0)]]
         ELSE IF old_text = <<>>
         THEN calls' = [calls EXCEPT ![c] = [call EXCEPT !.pc = "done",
                                               !.result = Error("missing_old", 0)]]
         ELSE IF old_text = new_text
         THEN calls' = [calls EXCEPT ![c] = [call EXCEPT !.pc = "done",
                                               !.result = Error("identical", 0)]]
         ELSE calls' = [calls EXCEPT ![c] = [call EXCEPT !.pc = "exists",
                                               !.resolved = resolve_path(Cwd, path)]]
  /\ UNCHANGED <<fs, fs0, trunc, tool>>

\* a call of execute with any arguments
Call(c) ==
  /\ calls[c].pc = "idle"
  /\ \E path \in RequestPaths, old_text \in OldTexts :
       \E new_text \in NewTexts \cup {old_text} : Execute(c, path, old_text, new_text)

\* the exists step with a slip: a missing file is created before the error
\* is returned
Exists_Creating(c, io_ok) ==
  /\ calls[c].pc = "exists"
  /\ IF ~io_ok THEN Return(c, Error("exists_failed", 0)) /\ fs' = fs
     ELSE IF calls[c].resolved \notin DOMAIN fs
     THEN /\ Return(c, Error("file_not_found", 0))
          /\ fs' = [p \in DOMAIN fs \cup {calls[c].resolved} |->
                      IF p = calls[c].resolved THEN <<>> ELSE fs[p]]
     ELSE calls' = [calls EXCEPT ![c].pc = "read"] /\ fs' = fs
  /\ UNCHANGED <<fs0, trunc, tool>>

\* fs.exists(&resolved).await?  -- the storage layer may fail the call
Exists(c, io_ok) ==
  /\ calls[c].pc = "exists"
  /\ IF ~io_ok THEN Return(c, Error("exists_failed", 0))
     ELSE IF calls[c].resolved \notin DOMAIN fs THEN Return(c, Error("file_not_found", 0))
     ELSE calls' = [calls EXCEPT ![c].pc = "read"]
  /\ UNCHANGED <<fs, fs0, trunc, tool>>

\* fs.read_to_string(&resolved).await, then the exact and the fuzzy phase,
\* which run without an await up to fs.write
Read(c, io_ok) ==
  /\ calls[c].pc = "read"
  /\ IF ~io_ok \/ calls[c].resolved \notin DOMAIN fs
     THEN Return(c, Error("read_failed", 0))
     ELSE LET content == fs[calls[c].resolved]
              plan == ExactPhase(content, calls[c].old, calls[c].new)
          IN  IF plan.kind = "write"
              THEN calls' = [calls EXCEPT ![c].pc = "write",
                                          ![c].content = content,
                                          ![c].new_content = plan.new_content,
                                          ![c].method = plan.method]
              ELSE calls' = [calls EXCEPT ![c].pc = "done",
                                          ![c].content = content,
                                          ![c].result = Error(plan.kind, plan.count)]
  /\ UNCHANGED <<fs, fs0, trunc, tool>>

\* the write step with a slip: the edit is applied again to the document
\* the file holds at the time of the write, as under a lock
Write_Reapplying(c, io_ok) ==
  /\ calls[c].pc = "write"
  /\ IF ~io_ok
     THEN /\ Return(c, Error("write_failed", 0))
          /\ fs' = fs
     ELSE LET plan == ExactPhase(fs[calls[c].resolved], calls[c].old, calls[c].new)
              stored == IF plan.kind = "write" THEN plan.new_content
                        ELSE fs[calls[c].resolved]
          IN  /\ fs' = [fs EXCEPT ![calls[c].resolved] = stored]
              /\ Return(c, [kind |-> "ok", count |-> 0, method |-> calls[c].method,
                            content |-> unified_diff(calls[c].content, stored, calls[c].path),
                            first_changed_line |-> first_changed_line(calls[c].content, stored)])
  /\ UNCHANGED <<fs0, trunc, tool>>

\* fs.write(&resolved, &new_content).await and the result built from it
Write(c, io_ok) ==
  /\ calls[c].pc = "write"
  /\ IF ~io_ok
     THEN /\ Return(c, Error("write_failed", 0))
          /\ fs' = fs
     ELSE /\ fs' = [p \in DOMAIN fs \cup {calls[c].resolved} |->
                      IF p = calls[c].resolved THEN calls[c].new_content ELSE fs[p]]
          /\ Return(c, [kind |-> "ok", count |-> 0, method |-> calls[c].method,
                        content |-> unified_diff(calls[c].content, calls[c].new_content,
                                                 calls[c].path),
                        first_changed_line |->
                          first_changed_line(calls[c].content, calls[c].new_content)])
  /\ UNCHANGED <<fs0, trunc, tool>>

NoTrunc == [op |-> "none"]

\* no call of the read tool or of the grep tool made yet
NoTool == [op |-> "none"]

EmptyFs == [p \in {} |-> <<>>]

Init ==
  /\ fs \in {EmptyFs} \cup {[p \in {FilePath} |-> d] : d \in Docs}
  /\ fs0 = fs
  /\ calls = [c \in {1} |-> IdleCall]
  /\ trunc = NoTrunc
  /\ tool = NoTool

Next ==
  \/ \E c \in DOMAIN calls : Call(c)
  \/ \E c \in DOMAIN calls, io_ok \in BOOLEAN : Exists(c, io_ok)
  \/ \E c \in DOMAIN calls, io_ok \in BOOLEAN : Read(c, io_ok)
  \/ \E c \in DOMAIN calls, io_ok \in BOOLEAN : Write(c, io_ok)

Spec == Init /\ [][Next]_vars

(***************************************************************************)
(* Two calls of execute in flight at once on one EditTool, over a storage  *)
(* layer that holds two documents.  A call yields at each of its awaits    *)
(* (exists, read_to_string, write), so the steps of the two interleave in  *)
(* every order; each storage operation is atomic.                          *)
(***************************************************************************)
ConcChars == {"apos", "rsq"}

ConcDocs == SeqsUpTo(ConcChars, MaxConcDoc)

ConcPaths == {<<"f">>, <<"g">>}

ConcOlds == {<<"apos">>, <<"rsq">>}

ConcNews == {<<>>, <<"b">>}

InitConc ==
  /\ \E df \in ConcDocs, dg \in ConcDocs :
       fs = [p \in {resolve_path(Cwd, q) : q \in ConcPaths} |->
               IF p = resolve_path(Cwd, <<"f">>) THEN df ELSE dg]
  /\ fs0 = fs
  /\ calls = [c \in {1, 2} |-> IdleCall]
  /\ trunc = NoTrunc
  /\ tool = NoTool

\* a call of execute on either document
ConcCall(c) ==
  /\ calls[c].pc = "idle"
  /\ \E path \in ConcPaths, old_text \in ConcOlds, new_text \in ConcNews :
       Execute(c, path, old_text, new_text)

NextConc ==
  \/ \E c \in DOMAIN calls : ConcCall(c)
  \/ \E c \in DOMAIN calls, io_ok \in BOOLEAN : Exists(c, io_ok)
  \/ \E c \in DOMAIN calls, io_ok \in BOOLEAN : Read(c, io_ok)
  \/ \E c \in DOMAIN calls, io_ok \in BOOLEAN : Write(c, io_ok)

SpecConc == InitConc /\ [][NextConc]_vars

(***************************************************************************)
(* The truncation engine (src/truncate.rs).                                *)
(***************************************************************************)
TruncationResult(content, original_lines, output_lines, original_bytes, output_bytes, truncated_by) ==
  [content |-> content, original_lines |-> original_lines, output_lines |-> output_lines,
   original_bytes |-> original_bytes, output_bytes |-> output_bytes,
   truncated_by |-> truncated_by]

\* the loop of truncate_head with a slip: the separator is left out of the
\* byte count
RECURSIVE HeadLoop_SeparatorUncounted(_, _, _, _, _, _)
HeadLoop_SeparatorUncounted(ls, output, line_count, byte_count, max_lines, max_bytes) ==
  IF ls = <<>>
  THEN [output |-> output, line_count |-> line_count, truncated_by |-> "None"]
  ELSE IF line_count >= max_lines
  THEN [output |-> output, line_count |-> line_count, truncated_by |-> "Lines"]
  ELSE LET line_with_newline == IF line_count > 0 THEN <<"nl">> \o Head(ls) ELSE Head(ls)
           new_bytes == byte_count + StrLen(Head(ls))
       IN  IF new_bytes > max_bytes
           THEN [output |-> output, line_count |-> line_count, truncated_by |-> "Bytes"]
           ELSE HeadLoop_SeparatorUncounted(Tail(ls), output \o line_with_newline,
                                            line_count + 1, new_bytes, max_lines, max_bytes)

\* the loop of truncate_head with a slip: the byte budget is tested before
\* the line budget
RECURSIVE HeadLoop_BytesFirst(_, _, _, _, _, _)
HeadLoop_BytesFirst(ls, output, line_count, byte_count, max_lines, max_bytes) ==
  IF ls = <<>>
  THEN [output |-> output, line_count |-> line_count, truncated_by |-> "None"]
  ELSE LET line_with_newline == IF line_count > 0 THEN <<"nl">> \o Head(ls) ELSE Head(ls)
           new_bytes == byte_count + StrLen(line_with_newline)
       IN  IF new_bytes > max_bytes
           THEN [output |-> output, line_count |-> line_count, truncated_by |-> "Bytes"]
           ELSE IF line_count >= max_lines
           THEN [output |-> output, line_count |-> line_count, truncated_by |-> "Lines"]
           ELSE HeadLoop_BytesFirst(Tail(ls), output \o line_with_newline, line_count + 1,
                                    new_bytes, max_lines, max_bytes)

\* the loop of truncate_head with a slip: the line budget is tested with >
RECURSIVE HeadLoop_OneLineMore(_, _, _, _, _, _)
HeadLoop_OneLineMore(ls, output, line_count, byte_count, max_lines, max_bytes) ==
  IF ls = <<>>
  THEN [output |-> output, line_count |-> line_count, truncated_by |-> "None"]
  ELSE IF line_count > max_lines
  THEN [output |-> output, line_count |-> line_count, truncated_by |-> "Lines"]
  ELSE LET line_with_newline == IF line_count > 0 THEN <<"nl">> \o Head(ls) ELSE Head(ls)
           new_bytes == byte_count + StrLen(line_with_newline)
       IN  IF new_bytes > max_bytes
           THEN [output |-> output, line_count |-> line_count, truncated_by |-> "Bytes"]
           ELSE HeadLoop_OneLineMore(Tail(ls), output \o line_with_newline, line_count + 1,
                                     new_bytes, max_lines, max_bytes)

\* the for loop of truncate_head over the lines still to visit
RECURSIVE HeadLoop(_, _, _, _, _, _)
HeadLoop(ls, output, line_count, byte_count, max_lines, max_bytes) ==
  IF ls = <<>>
  THEN [output |-> output, line_count |-> line_count, truncated_by |-> "None"]
  ELSE IF line_count >= max_lines
  THEN [output |-> output, line_count |-> line_count, truncated_by |-> "Lines"]
  ELSE LET line_with_newline == IF line_count > 0 THEN <<"nl">> \o Head(ls) ELSE Head(ls)
           new_bytes == byte_count + StrLen(line_with_newline)
       IN  IF new_bytes > max_bytes
           THEN [output |-> output, line_count |-> line_count, truncated_by |-> "Bytes"]
           ELSE HeadLoop(Tail(ls), output \o line_with_newline, line_count + 1, new_bytes,
                         max_lines, max_bytes)

\* truncate_head with a slip: the fast path asks for strictly fewer lines than
\* the budget
truncate_head_strict(input, max_lines, max_bytes) ==
  LET original_bytes == StrLen(input)
      original_lines == Len(Lines(input))
  IN  IF original_lines < max_lines /\ original_bytes <= max_bytes
      THEN TruncationResult(input, original_lines, original_lines, original_bytes,
                            original_bytes, "None")
      ELSE LET r == HeadLoop(Lines(input), <<>>, 0, 0, max_lines, max_bytes)
           IN  TruncationResult(r.output, original_lines, r.line_count, original_bytes,
                                StrLen(r.output), r.truncated_by)

truncate_head(input, max_lines, max_bytes) ==
  LET original_bytes == StrLen(input)
      original_lines == Len(Lines(input))
  IN  IF original_lines <= max_lines /\ original_bytes <= max_bytes
      THEN TruncationResult(input, original_lines, original_lines, original_bytes,
                            original_bytes, "None")
      ELSE LET r == HeadLoop(Lines(input), <<>>, 0, 0, max_lines, max_bytes)
           IN  TruncationResult(r.output, original_lines, r.line_count, original_bytes,
                                StrLen(r.output), r.truncated_by)

\* str::is_char_boundary: byte offset k is 0, the length, or the start of a
\* character
RECURSIVE is_char_boundary(_, _)
is_char_boundary(t, k) ==
  IF k = 0 THEN TRUE
  ELSE IF t = <<>> \/ k < 0 THEN FALSE
  ELSE is_char_boundary(Tail(t), k - ByteLen(Head(t)))

\* the boundary loop with a slip: the index is used as it is
AdvanceToBoundary_NoLoop(joined, cut) == cut

\* the while loop of truncate_tail and of truncate_line
RECURSIVE AdvanceToBoundary(_, _)
AdvanceToBoundary(joined, cut) ==
  IF cut < StrLen(joined) /\ ~is_char_boundary(joined, cut)
  THEN AdvanceToBoundary(joined, cut + 1)
  ELSE cut

\* joined[cut..] for a cut on a character boundary
RECURSIVE SliceFrom(_, _)
SliceFrom(t, cut) ==
  IF cut <= 0 \/ t = <<>> THEN t ELSE SliceFrom(Tail(t), cut - ByteLen(Head(t)))

\* truncate_tail with a slip: the bytes over the budget are removed from the
\* end of the joined lines
truncate_tail_keep_prefix(input, max_lines, max_bytes) ==
  LET original_bytes == StrLen(input)
      original_lines == Len(Lines(input))
  IN  IF original_lines <= max_lines /\ original_bytes <= max_bytes
      THEN TruncationResult(input, original_lines, original_lines, original_bytes,
                            original_bytes, "None")
      ELSE LET lines == Lines(input)
               start == IF Len(lines) > max_lines THEN Len(lines) - max_lines ELSE 0
               joined == Join(SubSeq(lines, start + 1, Len(lines)))
               over == StrLen(joined) > max_bytes
               kept == IF over
                       THEN CHOOSE q \in {SubSeq(joined, 1, i) : i \in 0..Len(joined)} :
                              /\ StrLen(q) <= max_bytes
                              /\ \A i \in 0..Len(joined) :
                                   StrLen(SubSeq(joined, 1, i)) <= max_bytes => i <= Len(q)
                       ELSE joined
           IN  TruncationResult(kept, original_lines, Len(Lines(kept)), original_bytes,
                                StrLen(kept),
                                IF over THEN "Bytes" ELSE IF start > 0 THEN "Lines" ELSE "None")

\* truncate_tail with a slip: the first max_lines lines are selected, not the
\* last
truncate_tail_first_lines(input, max_lines, max_bytes) ==
  LET original_bytes == StrLen(input)
      original_lines == Len(Lines(input))
  IN  IF original_lines <= max_lines /\ original_bytes <= max_bytes
      THEN TruncationResult(input, original_lines, original_lines, original_bytes,
                            original_bytes, "None")
      ELSE LET lines == Lines(input)
               start == IF Len(lines) > max_lines THEN Len(lines) - max_lines ELSE 0
               joined == Join(SubSeq(lines, 1, Len(lines) - start))
               over == StrLen(joined) > max_bytes
               cut == AdvanceToBoundary(joined, StrLen(joined) - max_bytes)
               kept == IF over THEN SliceFrom(joined, cut) ELSE joined
           IN  TruncationResult(kept, original_lines, Len(Lines(kept)), original_bytes,
                                StrLen(kept),
                                IF over THEN "Bytes" ELSE IF start > 0 THEN "Lines" ELSE "None")

\* truncate_tail with a slip: the cut is made at max_bytes, not at the excess
truncate_tail_cut_at_budget(input, max_lines, max_bytes) ==
  LET original_bytes == StrLen(input)
      original_lines == Len(Lines(input))
  IN  IF original_lines <= max_lines /\ original_bytes <= max_bytes
      THEN TruncationResult(input, original_lines, original_lines, original_bytes,
                            original_bytes, "None")
      ELSE LET lines == Lines(input)
               start == IF Len(lines) > max_lines THEN Len(lines) - max_lines ELSE 0
               joined == Join(SubSeq(lines, start + 1, Len(lines)))
               over == StrLen(joined) > max_bytes
               kept == IF over THEN SliceFrom(joined, AdvanceToBoundary(joined, max_bytes))
                       ELSE joined
           IN  TruncationResult(kept, original_lines, Len(Lines(kept)), original_bytes,
                                StrLen(kept),
                                IF over THEN "Bytes" ELSE IF start > 0 THEN "Lines" ELSE "None")

truncate_tail(input, max_lines, max_bytes) ==
  LET original_bytes == StrLen(input)
      original_lines == Len(Lines(input))
  IN  IF original_lines <= max_lines /\ original_bytes <= max_bytes
      THEN TruncationResult(input, original_lines, original_lines, original_bytes,
                            original_bytes, "None")
      ELSE LET lines == Lines(input)
               start == IF Len(lines) > max_lines THEN Len(lines) - max_lines ELSE 0
               selected == SubSeq(lines, start + 1, Len(lines))
               joined == Join(selected)
               truncated_by == IF start > 0 THEN "Lines" ELSE "None"
               over == StrLen(joined) > max_bytes
               cut == AdvanceToBoundary(joined, StrLen(joined) - max_bytes)
               kept == IF over THEN SliceFrom(joined, cut) ELSE joined
               final_truncated_by == IF over THEN "Bytes" ELSE truncated_by
           IN  TruncationResult(kept, original_lines, Len(Lines(kept)), original_bytes,
                                StrLen(kept), final_truncated_by)

\* indexing a str by a byte range panics unless the index is a character
\* boundary of the string (its length included, anything past it excluded)
slice_panics(t, k) == ~is_char_boundary(t, k)

\* truncate_head indexes no string and subtracts nothing: no step of it can
\* panic
truncate_head_panics(input, max_lines, max_bytes) == FALSE

\* truncate_tail panics if joined[cut..] does
truncate_tail_panics(input, max_lines, max_bytes) ==
  LET lines == Lines(input)
      start == IF Len(lines) > max_lines THEN Len(lines) - max_lines ELSE 0
      joined == Join(SubSeq(lines, start + 1, Len(lines)))
      cut == AdvanceToBoundary(joined, StrLen(joined) - max_bytes)
  IN  /\ ~(Len(lines) <= max_lines /\ StrLen(input) <= max_bytes)
      /\ StrLen(joined) > max_bytes
      /\ slice_panics(joined, cut)

(***************************************************************************)
(* truncation_notice.  A formatted string is a sequence whose literal      *)
(* pieces are one element each and whose numbers are decimal digits.       *)
(***************************************************************************)
Digit(d) ==
  CASE d = 0 -> "0" [] d = 1 -> "1" [] d = 2 -> "2" [] d = 3 -> "3" [] d = 4 -> "4"
    [] d = 5 -> "5" [] d = 6 -> "6" [] d = 7 -> "7" [] d = 8 -> "8" [] d = 9 -> "9"

\* Display for usize
RECURSIVE Digits(_)
Digits(n) == IF n < 10 THEN <<Digit(n)>> ELSE Digits(n \div 10) \o <<Digit(n % 10)>>

\* Option<String>
None == [some |-> FALSE, text |-> <<>>]

Some(text) == [some |-> TRUE, text |-> text]

\* truncation_notice with a slip: the byte notice shows the line counts
truncation_notice_lines_only(result) ==
  CASE result.truncated_by = "Lines" ->
         Some(<<"[Truncated: showing ">> \o Digits(result.output_lines) \o <<" of ">>
              \o Digits(result.original_lines) \o <<" lines]">>)
    [] result.truncated_by = "Bytes" ->
         Some(<<"[Truncated: showing ">> \o Digits(result.output_lines) \o <<" of ">>
              \o Digits(result.original_lines) \o <<" bytes]">>)
    [] OTHER -> None

truncation_notice(result) ==
  CASE result.truncated_by = "Lines" ->
         Some(<<"[Truncated: showing ">> \o Digits(result.output_lines) \o <<" of ">>
              \o Digits(result.original_lines) \o <<" lines]">>)
    [] result.truncated_by = "Bytes" ->
         Some(<<"[Truncated: showing ">> \o Digits(result.output_bytes) \o <<" of ">>
              \o Digits(result.original_bytes) \o <<" bytes]">>)
    [] OTHER -> None

(***************************************************************************)
(* truncate_line.                                                          *)
(***************************************************************************)
LineChars == {"a", "rsq", "."}

Ellipsis == <<".", ".", ".">>

\* line[..end] for an end on a character boundary
RECURSIVE SliceTo(_, _)
SliceTo(t, end) ==
  IF t = <<>> \/ end < ByteLen(Head(t)) THEN <<>>
  ELSE <<Head(t)>> \o SliceTo(Tail(t), end - ByteLen(Head(t)))

\* usize::saturating_sub
saturating_sub(a, b) == IF a >= b THEN a - b ELSE 0

\* the end of the prefix truncate_line keeps
LineEnd(line, max_chars) == AdvanceToBoundary(line, saturating_sub(max_chars, 3))

truncate_line(line, max_chars) ==
  IF StrLen(line) <= max_chars THEN line
  ELSE SliceTo(line, LineEnd(line, max_chars)) \o Ellipsis

\* truncate_line panics if line[..end] does
truncate_line_panics(line, max_chars) ==
  /\ StrLen(line) > max_chars
  /\ slice_panics(line, LineEnd(line, max_chars))

(***************************************************************************)
(* The truncation engine driven over every text and pair of budgets within *)
(* the bounds: trunc records one call, its arguments and its result, then  *)
(* the notice asked of a TruncationResult.                                 *)
(***************************************************************************)
TruncTexts == SeqsUpTo(TruncChars, MaxText)

LineTexts == SeqsUpTo(LineChars, MaxText)

TruncateHead(input, max_lines, max_bytes) ==
  /\ trunc' = [op |-> "head", input |-> input, max_lines |-> max_lines,
               max_bytes |-> max_bytes,
               result |-> truncate_head(input, max_lines, max_bytes),
               panicked |-> truncate_head_panics(input, max_lines, max_bytes),
               noticed |-> FALSE, notice |-> None]
  /\ UNCHANGED <<fs, fs0, calls, tool>>

TruncateTail(input, max_lines, max_bytes) ==
  /\ trunc' = [op |-> "tail", input |-> input, max_lines |-> max_lines,
               max_bytes |-> max_bytes,
               result |-> truncate_tail(input, max_lines, max_bytes),
               panicked |-> truncate_tail_panics(input, max_lines, max_bytes),
               noticed |-> FALSE, notice |-> None]
  /\ UNCHANGED <<fs, fs0, calls, tool>>

TruncateLine(line, max_chars) ==
  /\ trunc' = [op |-> "line", line |-> line, max_chars |-> max_chars,
               result |-> truncate_line(line, max_chars),
               panicked |-> truncate_line_panics(line, max_chars)]
  /\ UNCHANGED <<fs, fs0, calls, tool>>

TruncationNotice ==
  /\ trunc' = [trunc EXCEPT !.noticed = TRUE, !.notice = truncation_notice(trunc.result)]
  /\ UNCHANGED <<fs, fs0, calls, tool>>

InitTrunc ==
  /\ fs = EmptyFs
  /\ fs0 = fs
  /\ calls = [c \in {} |-> IdleCall]
  /\ trunc = NoTrunc
  /\ tool = NoTool

\* one call of truncate_head, with any text and budgets
HeadCall ==
  /\ trunc.op = "none"
  /\ \E input \in TruncTexts, max_lines \in 0..MaxLines, max_bytes \in 0..MaxBytes :
       TruncateHead(input, max_lines, max_bytes)

\* one call of truncate_tail, with any text and budgets
TailCall ==
  /\ trunc.op = "none"
  /\ \E input \in TruncTexts, max_lines \in 0..MaxLines, max_bytes \in 0..MaxBytes :
       TruncateTail(input, max_lines, max_bytes)

\* one call of truncate_line, with any line and width
LineCall ==
  /\ trunc.op = "none"
  /\ \E line \in LineTexts, max_chars \in 0..MaxBytes : TruncateLine(line, max_chars)

\* truncation_notice asked of the result of a call that did not panic
NoticeCall ==
  /\ trunc.op \in {"head", "tail"}
  /\ ~trunc.panicked
  /\ ~trunc.noticed
  /\ TruncationNotice

NextTrunc == HeadCall \/ TailCall \/ LineCall \/ NoticeCall

SpecTrunc == InitTrunc /\ [][NextTrunc]_vars

(***************************************************************************)
(* ReadTool::execute, and a caller that follows its continuation hints.    *)
(* The output text is kept in its parts: the numbered lines, the           *)
(* truncation notice and the hint.                                         *)
(***************************************************************************)
\* Option<usize> of the limit argument
NoLimit == [some |-> FALSE, n |-> 0]

Limit(n) == [some |-> TRUE, n |-> n]

NoHint == [some |-> FALSE, offset |-> 0, limit |-> 0]

\* add_line_numbers: each line of the content with its number
add_line_numbers(content, start_line) ==
  LET ls == Lines(content)
  IN  [i \in 1..Len(ls) |-> [number |-> start_line + i - 1, line |-> ls[i]]]

ReadError(kind) ==
  [is_error |-> TRUE, kind |-> kind, numbered |-> <<>>, notice |-> None, hint |-> NoHint,
   total_lines |-> 0, lines_returned |-> 0, truncated |-> FALSE]

\* execute from the content read to the output
read_range(content, offset, limit) ==
  LET total_lines == Len(Lines(content))
      lines == Lines(content)
      start_idx == Min(offset - 1, Len(lines))
      end_idx == IF limit.some THEN Min(start_idx + limit.n, Len(lines)) ELSE Len(lines)
      selected == Join(SubSeq(lines, start_idx + 1, end_idx))
      max_lines == Min(IF limit.some THEN limit.n ELSE ReadLineBudget, ReadLineBudget)
      result == truncate_head(selected, max_lines, ReadByteBudget)
      is_truncated == result.truncated_by # "None"
      next_offset == offset + result.output_lines
      remaining == saturating_sub(total_lines, next_offset - 1)
  IN  IF offset < 1 THEN ReadError("offset_below_one")
      ELSE IF start_idx >= Len(lines) THEN ReadError("offset_exceeds_file")
      ELSE [is_error |-> FALSE, kind |-> "ok",
            numbered |-> add_line_numbers(result.content, offset),
            notice |-> IF is_truncated THEN truncation_notice(result) ELSE None,
            hint |-> IF is_truncated /\ remaining > 0
                     THEN [some |-> TRUE, offset |-> next_offset,
                           limit |-> Min(remaining, ReadLineBudget)]
                     ELSE NoHint,
            total_lines |-> total_lines, lines_returned |-> result.output_lines,
            truncated |-> is_truncated]

read_execute(path, offset, limit, exists_ok, read_ok) ==
  LET resolved == resolve_path(Cwd, path)
  IN  IF path = <<>> THEN ReadError("missing_path")
      ELSE IF ~exists_ok THEN ReadError("exists_failed")
      ELSE IF resolved \notin DOMAIN fs THEN ReadError("file_not_found")
      ELSE IF ~read_ok THEN ReadError("read_failed")
      ELSE read_range(fs[resolved], offset, limit)

\* the lines of the numbered output, without their numbers
OutputLines(numbered) == [i \in 1..Len(numbered) |-> numbered[i].line]

ReadExecute(path, offset, limit, exists_ok, read_ok, received) ==
  LET result == read_execute(path, offset, limit, exists_ok, read_ok)
  IN  /\ tool' = [op |-> "read", path |-> path, offset |-> offset, limit |-> limit,
                  result |-> result,
                  received |-> received \o OutputLines(result.numbered)]
      /\ UNCHANGED <<fs, fs0, calls, trunc>>

InitRead ==
  /\ fs \in {EmptyFs} \cup {[p \in {FilePath} |-> d] : d \in TruncTexts}
  /\ fs0 = fs
  /\ calls = [c \in {} |-> IdleCall]
  /\ trunc = NoTrunc
  /\ tool = NoTool

\* a first call of the read tool, with any offset and limit
ReadCall ==
  /\ tool.op = "none"
  /\ \E path \in RequestPaths, offset \in 0..MaxLines, exists_ok \in BOOLEAN :
       \E limit \in {NoLimit} \cup {Limit(n) : n \in 0..MaxLines}, read_ok \in BOOLEAN :
         ReadExecute(path, offset, limit, exists_ok, read_ok, <<>>)

\* the caller reads on with the offset and limit of the hint it was given
FollowHint ==
  /\ tool.op = "read"
  /\ tool.result.hint.some
  /\ \E exists_ok \in BOOLEAN, read_ok \in BOOLEAN :
       ReadExecute(tool.path, tool.result.hint.offset, Limit(tool.result.hint.limit),
                   exists_ok, read_ok, tool.received)

NextRead == ReadCall \/ FollowHint

SpecRead == InitRead /\ [][NextRead]_vars

(***************************************************************************)
(* GrepTool::execute over a working directory that holds up to two files,  *)
(* f and g, and no subdirectory.  "x" and "X" are a letter in its two      *)
(* cases.                                                                  *)
(***************************************************************************)
GrepChars == {"x", "X", "nl"}

GrepDocs == SeqsUpTo(GrepChars, MaxGrepDoc)

GrepPaths == <<resolve_path(Cwd, <<"f">>), resolve_path(Cwd, <<"g">>)>>

starts_with(t, p) == Len(p) <= Len(t) /\ SubSeq(t, 1, Len(p)) = p

ends_with(t, p) == Len(p) <= Len(t) /\ SubSeq(t, Len(t) - Len(p) + 1, Len(t)) = p

contains(t, p) == \E i \in 0..(Len(t) - Len(p)) : SubSeq(t, i + 1, i + Len(p)) = p

to_lowercase(t) == [i \in 1..Len(t) |-> IF t[i] = "X" THEN "x" ELSE t[i]]

matches_pattern(line, pattern, literal, ignore_case) ==
  IF literal
  THEN IF ignore_case THEN contains(to_lowercase(line), to_lowercase(pattern))
       ELSE contains(line, pattern)
  ELSE IF ignore_case THEN contains(to_lowercase(line), to_lowercase(pattern))
       ELSE contains(line, pattern)

matches_glob(filename, glob) ==
  LET stars == {i \in 1..Len(glob) : glob[i] = "*"}
  IN  IF starts_with(glob, <<"*", ".">>) THEN ends_with(filename, Tail(glob))
      ELSE IF stars # {}
      THEN IF Cardinality(stars) = 1
           THEN LET i == CHOOSE j \in stars : TRUE
                IN  /\ starts_with(filename, SubSeq(glob, 1, i - 1))
                    /\ ends_with(filename, SubSeq(glob, i + 1, Len(glob)))
           ELSE TRUE
      ELSE filename = glob

\* display_path
display_path(path, cwd) ==
  LET cwd_prefix == TrimEndSlashes(cwd) \o <<"/">>
  IN  IF starts_with(path, cwd_prefix) THEN SubSeq(path, Len(cwd_prefix) + 1, Len(path))
      ELSE path

\* collect_files and files.sort(): the files of the directory that pass the
\* glob filter, in the order of their paths
collect_files(glob_filter) ==
  SelectSeq(GrepPaths,
            LAMBDA q : /\ q \in DOMAIN fs
                       /\ glob_filter.some => matches_glob(<<q[Len(q)]>>, glob_filter.text))

\* one line of the output: path, line number, ':' for a match and '-' for
\* context, and the line cut to the width
GrepOutputLine(file_path, number, mark, line) ==
  display_path(file_path, Cwd) \o <<":">> \o Digits(number) \o <<mark>>
    \o truncate_line(line, GrepLineWidth) \o <<"nl">>

\* the loop over the lines of one file, from line i on
RECURSIVE GrepLines(_, _, _, _, _)
GrepLines(req, file_path, lines, i, acc) ==
  IF i > Len(lines) \/ acc.stopped THEN acc
  ELSE IF ~matches_pattern(lines[i], req.pattern, req.literal, req.ignore_case)
  THEN GrepLines(req, file_path, lines, i + 1, acc)
  ELSE LET line_idx == i - 1
           separator == IF ~acc.file_had_match /\ acc.output # <<>> THEN <<"nl">> ELSE <<>>
           ctx_start == saturating_sub(line_idx, req.context_lines)
           before == Concat([j \in 1..(line_idx - ctx_start) |->
                               GrepOutputLine(file_path, ctx_start + j, "-",
                                              lines[ctx_start + j])])
           ctx_end == Min(line_idx + req.context_lines + 1, Len(lines))
           after == Concat([j \in 1..(ctx_end - line_idx - 1) |->
                              GrepOutputLine(file_path, line_idx + j + 1, "-",
                                             lines[line_idx + j + 1])])
           total_matches == acc.total_matches + 1
       IN  GrepLines(req, file_path, lines, i + 1,
                     [output |-> acc.output \o separator \o before
                                   \o GrepOutputLine(file_path, line_idx + 1, ":", lines[i])
                                   \o after,
                      total_matches |-> total_matches,
                      files_with_matches |->
                        acc.files_with_matches + (IF acc.file_had_match THEN 0 ELSE 1),
                      file_had_match |-> TRUE,
                      stopped |-> total_matches >= req.max_matches])

\* the loop over the files
RECURSIVE GrepFiles(_, _, _, _)
GrepFiles(req, files, unreadable, acc) ==
  IF files = <<>> \/ acc.stopped THEN acc
  ELSE IF Head(files) \in unreadable THEN GrepFiles(req, Tail(files), unreadable, acc)
  ELSE GrepFiles(req, Tail(files), unreadable,
                 GrepLines(req, Head(files), Lines(fs[Head(files)]), 1,
                           [acc EXCEPT !.file_had_match = FALSE]))

GrepError(kind) ==
  [is_error |-> TRUE, kind |-> kind, collected |-> <<>>, content |-> <<>>,
   reached_max |-> FALSE, notice |-> None, matches |-> 0, files_with_matches |-> 0,
   truncated |-> FALSE]

grep_execute(pattern, path, glob_filter, ignore_case, literal, context, max, dir_ok, unreadable) ==
  LET search_path == IF path.some THEN resolve_path(Cwd, path.text) ELSE Cwd
      max_matches == IF max.some THEN Min(max.n, GrepMaxMatches) ELSE GrepMaxMatches
      req == [pattern |-> pattern, literal |-> literal, ignore_case |-> ignore_case,
              context_lines |-> context, max_matches |-> max_matches]
      found == GrepFiles(req, collect_files(glob_filter), unreadable,
                         [output |-> <<>>, total_matches |-> 0, files_with_matches |-> 0,
                          file_had_match |-> FALSE, stopped |-> FALSE])
      total_matches == found.total_matches
      truncated == truncate_head(found.output,
                                 total_matches + (total_matches * context * 2),
                                 GrepByteBudget)
  IN  IF pattern = <<>> THEN GrepError("missing_pattern")
      ELSE IF ~dir_ok THEN GrepError("enumerate_failed")
      ELSE IF total_matches = 0
      THEN [GrepError("no_matches") EXCEPT !.is_error = FALSE]
      ELSE [is_error |-> FALSE, kind |-> "ok", collected |-> found.output,
            content |-> truncated.content,
            reached_max |-> total_matches >= max_matches,
            notice |-> truncation_notice(truncated),
            matches |-> total_matches, files_with_matches |-> found.files_with_matches,
            truncated |-> truncated.truncated_by # "None"]

GrepExecute(pattern, path, glob_filter, ignore_case, literal, context, max, dir_ok, unreadable) ==
  /\ tool' = [op |-> "grep", pattern |-> pattern, glob |-> glob_filter,
              ignore_case |-> ignore_case, context |-> context, max_matches |-> max,
              result |-> grep_execute(pattern, path, glob_filter, ignore_case, literal,
                                      context, max, dir_ok, unreadable)]
  /\ UNCHANGED <<fs, fs0, calls, trunc>>

InitGrep ==
  /\ \E df \in {None} \cup {Some(d) : d \in GrepDocs} :
       \E dg \in {None, Some(<<"x">>), Some(<<"X", "nl", "x">>)} :
         fs = [q \in (IF df.some THEN {GrepPaths[1]} ELSE {})
                       \cup (IF dg.some THEN {GrepPaths[2]} ELSE {}) |->
                 IF q = GrepPaths[1] THEN df.text ELSE dg.text]
  /\ fs0 = fs
  /\ calls = [c \in {} |-> IdleCall]
  /\ trunc = NoTrunc
  /\ tool = NoTool

\* one call of the grep tool on the working directory
GrepCall ==
  /\ tool.op = "none"
  /\ \E pattern \in {<<>>, <<"x">>}, path \in {None, Some(Cwd)}, ignore_case \in BOOLEAN :
       \E glob_filter \in {None, Some(<<"g">>), Some(<<"f", "*">>)}, literal \in BOOLEAN :
         \E context \in 0..MaxGrepContext, io \in {"ok", "dir_failed", "f_unreadable"} :
           \E max \in {NoLimit, Limit(0), Limit(1), Limit(GrepMaxMatches + 1)} :
             GrepExecute(pattern, path, glob_filter, ignore_case, literal, context, max,
                         io # "dir_failed",
                         IF io = "f_unreadable" THEN {GrepPaths[1]} ELSE {})

NextGrep == GrepCall

SpecGrep == InitGrep /\ [][NextGrep]_vars

(***************************************************************************)
(* Vocabulary of the properties.  Spec runs one call of execute, so the    *)
(* document that call reads is the one fs0 holds at its resolved path.     *)
(***************************************************************************)
\* every offset at which S occurs in D, overlapping occurrences included
OccurrencePositions(D, S) ==
  {i \in 0..(Len(D) - Len(S)) : SubSeq(D, i + 1, i + Len(S)) = S}

\* the occurrences one left-to-right scan counts when it resumes after the
\* end of each match
RECURSIVE GreedyCount(_, _, _)
GreedyCount(occ, len, from) ==
  LET later == {i \in occ : i >= from}
      next == CHOOSE i \in later : \A j \in later : i <= j
  IN  IF later = {} THEN 0 ELSE 1 + GreedyCount(occ, len, next + len)

ScanCount(D, S) ==
  IF S = <<>> THEN Cardinality(OccurrencePositions(D, S))
  ELSE GreedyCount(OccurrencePositions(D, S), Len(S), 0)

NormCount(D, S) == ScanCount(normalize_for_fuzzy(D), normalize_for_fuzzy(S))

ValidRequest(k) == k.path # <<>> /\ k.old # <<>> /\ k.old # k.new

StorageFailed(k) == k.result.kind \in {"exists_failed", "read_failed", "write_failed"}

\* the call has returned, its request was well formed, its file existed and
\* the storage layer failed none of its operations
Settled(k) ==
  /\ k.pc = "done"
  /\ ValidRequest(k)
  /\ k.resolved \in DOMAIN fs0
  /\ ~StorageFailed(k)

InvalidRequestKinds == {"missing_path", "missing_old", "identical"}

\* C1: when old occurs exactly once in the document (and new differs from
\* it), the edit succeeds with method "exact" and the file holds the
\* document with that one occurrence replaced by new, the text before and
\* after it unchanged.  "Once" is by the left-to-right scan, so an old that
\* only overlaps itself ("aa" in "aaa") occurs once, at its first offset.
C1_ExactUniqueReplaced ==
  \A c \in DOMAIN calls :
    LET k == calls[c]
        D == fs0[k.resolved]
        occ == OccurrencePositions(D, k.old)
        i == CHOOSE x \in occ : \A y \in occ : x <= y
    IN  (Settled(k) /\ ScanCount(D, k.old) = 1)
          => /\ k.result.kind = "ok"
             /\ k.result.method = "exact"
             /\ fs[k.resolved] =
                  SubSeq(D, 1, i) \o k.new \o SubSeq(D, i + Len(k.old) + 1, Len(D))

C1_Witness ==
  \E c \in DOMAIN calls :
    LET k == calls[c]
    IN  /\ Settled(k)
        /\ Len(fs0[k.resolved]) = MaxDoc
        /\ OccurrencePositions(fs0[k.resolved], k.old) = {1}
        /\ k.new = <<"a", "nl">>
        /\ k.result.kind = "ok"
        /\ fs[k.resolved] # fs0[k.resolved]

\* C2: when the left-to-right scan finds old two or more times in the
\* document, the edit fails with the exact-phase ambiguity error, the count
\* it reports is the scan's count, and the file is left as it was.
C2_ExactAmbiguous ==
  \A c \in DOMAIN calls :
    LET k == calls[c]
        D == fs0[k.resolved]
    IN  (Settled(k) /\ ScanCount(D, k.old) >= 2)
          => /\ k.result.kind = "ambiguous_exact"
             /\ k.result.count = ScanCount(D, k.old)
             /\ fs = fs0

C2_Witness ==
  \E c \in DOMAIN calls :
    LET k == calls[c]
    IN  /\ Settled(k)
        /\ ScanCount(fs0[k.resolved], k.old) = 3
        /\ k.result.kind = "ambiguous_exact"

\* C3 as stated: when old occurs 0 times or at least 2 times exactly and its
\* normalized form occurs exactly once in the normalized document, the edit
\* succeeds with method "fuzzy".
C3_FuzzyAfterZeroOrMany ==
  \A c \in DOMAIN calls :
    LET k == calls[c]
        D == fs0[k.resolved]
    IN  (Settled(k) /\ ScanCount(D, k.old) # 1 /\ NormCount(D, k.old) = 1)
          => (k.result.kind = "ok" /\ k.result.method = "fuzzy")

\* C3 amended: when old does not occur exactly in the document and its
\* normalized form occurs exactly once in the normalized document, the edit
\* succeeds with method "fuzzy".
C3_FuzzyAfterZero ==
  \A c \in DOMAIN calls :
    LET k == calls[c]
        D == fs0[k.resolved]
    IN  (Settled(k) /\ ScanCount(D, k.old) = 0 /\ NormCount(D, k.old) = 1)
          => (k.result.kind = "ok" /\ k.result.method = "fuzzy")

C3_Witness ==
  \E c \in DOMAIN calls :
    LET k == calls[c]
    IN  /\ Settled(k)
        /\ fs0[k.resolved] = <<"sp", "rsq", "sp">>
        /\ k.old = <<"sp", "apos">>
        /\ k.result.kind = "ok"
        /\ k.result.method = "fuzzy"

\* C4: a request whose old is empty or equal to new is rejected as an
\* invalid request by the argument checks: the call never reaches the
\* existence check or the read, and the file system is left as it was.
C4_InvalidRequestRejected ==
  \A c \in DOMAIN calls :
    LET k == calls[c]
    IN  (k.pc # "idle" /\ (k.old = <<>> \/ k.old = k.new))
          => /\ k.pc = "done"
             /\ k.result.kind \in InvalidRequestKinds
             /\ fs = fs0

C4_Witness ==
  \E c \in DOMAIN calls :
    LET k == calls[c]
    IN  /\ k.pc = "done"
        /\ k.path # <<>>
        /\ k.old = k.new
        /\ k.old # <<>>
        /\ fs0 # EmptyFs
        /\ OccurrencePositions(fs0[FilePath], k.old) # {}
        /\ k.result.kind = "identical"

\* C5: in the fuzzy phase, that is when old has no exact occurrence: with no
\* occurrence of the normalized old in the normalized document the edit
\* fails with the not-found error; with two or more it fails with the
\* fuzzy-phase ambiguity error, which carries their count.  Either way the
\* file is left as it was.
C5_FuzzyNotFoundOrAmbiguous ==
  \A c \in DOMAIN calls :
    LET k == calls[c]
        D == fs0[k.resolved]
        n == NormCount(D, k.old)
    IN  (Settled(k) /\ ScanCount(D, k.old) = 0)
          => /\ n = 0 => (k.result.kind = "not_found" /\ fs = fs0)
             /\ n >= 2 => /\ k.result.kind = "ambiguous_fuzzy"
                          /\ k.result.count = n
                          /\ fs = fs0

C5_Witness ==
  \E c \in DOMAIN calls :
    LET k == calls[c]
    IN  /\ Settled(k)
        /\ ScanCount(fs0[k.resolved], k.old) = 0
        /\ NormCount(fs0[k.resolved], k.old) = 2
        /\ k.result.kind = "ambiguous_fuzzy"
        /\ k.result.count = 2

\* C6: normalization for fuzzy matching is idempotent: normalizing the
\* normalized form of a document the edit tool read gives that form again.
C6_NormalizeIdempotent ==
  \A c \in DOMAIN calls :
    LET k == calls[c]
        once == normalize_for_fuzzy(k.content)
    IN  (k.pc = "done" /\ k.result.kind \in {"ok", "not_found", "ambiguous_fuzzy"})
          => normalize_for_fuzzy(once) = once

\* the lines of a rendered diff after its two file-header lines
DiffLines(diff) == LET ls == Lines(diff) IN SubSeq(ls, 3, Len(ls))

\* of the lines of a rendered diff, those behind one of the given signs, in
\* order and without the sign
RECURSIVE LinesBehind(_, _)
LinesBehind(ls, signs) ==
  IF ls = <<>> THEN <<>>
  ELSE IF Head(ls) # <<>> /\ Head(ls)[1] \in signs
       THEN <<Tail(Head(ls))>> \o LinesBehind(Tail(ls), signs)
       ELSE LinesBehind(Tail(ls), signs)

\* C7: the diff a successful edit renders reconstructs the edit: its context
\* and deleted lines, in order, are the lines of the document before the
\* edit, and its context and inserted lines, in order, are the lines of the
\* document after it.
C7_DiffReconstructsEdit ==
  \A c \in DOMAIN calls :
    LET k == calls[c]
        ls == DiffLines(k.result.content)
    IN  (k.pc = "done" /\ k.result.kind = "ok")
          => /\ LinesBehind(ls, {"sp", "-"}) = Lines(fs0[k.resolved])
             /\ LinesBehind(ls, {"sp", "+"}) = Lines(fs[k.resolved])

\* the text a truncation call was given fits both of its budgets
WithinBudgets ==
  /\ Len(Lines(trunc.input)) <= trunc.max_lines
  /\ StrLen(trunc.input) <= trunc.max_bytes

\* C8: a text within both budgets comes back from truncate_head and from
\* truncate_tail unchanged, with the output counts equal to the original
\* counts and no cut reason.
C8_FastPathUnchanged ==
  (trunc.op \in {"head", "tail"} /\ WithinBudgets)
    => /\ trunc.result.content = trunc.input
       /\ trunc.result.original_lines = Len(Lines(trunc.input))
       /\ trunc.result.original_bytes = StrLen(trunc.input)
       /\ trunc.result.output_lines = trunc.result.original_lines
       /\ trunc.result.output_bytes = trunc.result.original_bytes
       /\ trunc.result.truncated_by = "None"

C8_Witness ==
  /\ trunc.op = "tail"
  /\ WithinBudgets
  /\ Len(Lines(trunc.input)) = trunc.max_lines
  /\ StrLen(trunc.input) = trunc.max_bytes
  /\ trunc.max_lines >= 2
  /\ trunc.input[Len(trunc.input)] = "nl"
  /\ trunc.result.truncated_by = "None"

\* C9: the counts of every result of truncate_head and of truncate_tail are
\* within the original counts and within the budgets.
C9_OutputWithinBounds ==
  trunc.op \in {"head", "tail"}
    => /\ trunc.result.output_lines <= trunc.result.original_lines
       /\ trunc.result.output_bytes <= trunc.result.original_bytes
       /\ trunc.result.output_lines <= trunc.max_lines
       /\ trunc.result.output_bytes <= trunc.max_bytes

C9_Witness ==
  /\ trunc.op = "tail"
  /\ Len(Lines(trunc.input)) > trunc.max_lines
  /\ trunc.max_lines >= 2
  /\ trunc.result.truncated_by = "Bytes"
  /\ trunc.result.output_bytes < trunc.max_bytes
  /\ trunc.result.output_bytes > 0

\* C10: the cut reason of truncate_head and of truncate_tail is None exactly
\* when the text is within both budgets.
C10_NoneIffWithinBudgets ==
  trunc.op \in {"head", "tail"}
    => (trunc.result.truncated_by = "None" <=> WithinBudgets)

\* the text of a truncation call has more lines than the line budget, and
\* the byte budget is as large as the whole text, so it never triggers
LineBudgetAlone ==
  /\ trunc.max_lines < Len(Lines(trunc.input))
  /\ trunc.max_bytes >= StrLen(trunc.input)

\* C11: with fewer lines allowed than the text has and a byte budget that
\* never triggers, truncate_head returns exactly max_lines lines, the cut
\* reason Lines, and the first max_lines lines joined by a newline.
C11_HeadKeepsFirstLines ==
  (trunc.op = "head" /\ LineBudgetAlone)
    => /\ trunc.result.output_lines = trunc.max_lines
       /\ trunc.result.truncated_by = "Lines"
       /\ trunc.result.content = Join(SubSeq(Lines(trunc.input), 1, trunc.max_lines))

C11_Witness ==
  /\ trunc.op = "head"
  /\ LineBudgetAlone
  /\ trunc.max_lines = 2
  /\ Len(Lines(trunc.input)) = 3
  /\ trunc.result.content = <<"rsq", "nl", "a">>

\* C12: with fewer lines allowed than the text has and a byte budget that
\* never triggers, truncate_tail returns the cut reason Lines and the last
\* max_lines lines joined by a newline.
C12_TailKeepsLastLines ==
  (trunc.op = "tail" /\ LineBudgetAlone)
    => LET ls == Lines(trunc.input)
       IN  /\ trunc.result.truncated_by = "Lines"
           /\ trunc.result.content = Join(SubSeq(ls, Len(ls) - trunc.max_lines + 1, Len(ls)))

C12_Witness ==
  /\ trunc.op = "tail"
  /\ LineBudgetAlone
  /\ trunc.max_lines = 2
  /\ Len(Lines(trunc.input)) = 3
  /\ trunc.result.content = <<"rsq", "nl", "a">>

\* the number a run of decimal digits denotes
DigitValue(c) == CHOOSE d \in 0..9 : Digit(d) = c

RECURSIVE Number(_)
Number(ds) ==
  IF Len(ds) = 1 THEN DigitValue(ds[1])
  ELSE 10 * Number(SubSeq(ds, 1, Len(ds) - 1)) + DigitValue(ds[Len(ds)])

\* what a reader takes from a notice "[Truncated: showing N of M unit]"
NoticeReading(text) ==
  LET of == CHOOSE i \in 1..Len(text) : text[i] = " of "
  IN  [shown |-> Number(SubSeq(text, 2, of - 1)),
       total |-> Number(SubSeq(text, of + 1, Len(text) - 1)),
       unit |-> text[Len(text)]]

\* C13: truncation_notice returns a notice exactly when the cut reason is
\* not None; for Lines the notice reads output_lines of original_lines
\* lines, for Bytes it reads output_bytes of original_bytes bytes.
C13_NoticeReportsCounts ==
  (trunc.op \in {"head", "tail"} /\ trunc.noticed)
    => LET r == trunc.result
           n == trunc.notice
       IN  /\ n.some <=> r.truncated_by # "None"
           /\ r.truncated_by = "Lines"
                => NoticeReading(n.text) = [shown |-> r.output_lines,
                                            total |-> r.original_lines, unit |-> " lines]"]
           /\ r.truncated_by = "Bytes"
                => NoticeReading(n.text) = [shown |-> r.output_bytes,
                                            total |-> r.original_bytes, unit |-> " bytes]"]

C13_Witness ==
  /\ trunc.op = "tail"
  /\ trunc.noticed
  /\ trunc.result.truncated_by = "Bytes"
  /\ trunc.result.original_bytes >= 10
  /\ trunc.result.output_bytes # trunc.result.output_lines
  /\ trunc.notice.some

\* C14: truncate_line never returns a string of more than max_chars
\* characters, for any line and any max_chars.
C14_LineWithinMaxChars ==
  (trunc.op = "line" /\ ~trunc.panicked) => Len(trunc.result) <= trunc.max_chars

EndsWithEllipsis(t) == Len(t) >= 3 /\ SubSeq(t, Len(t) - 2, Len(t)) = Ellipsis

\* C15: the result of truncate_line ends with the three-character ellipsis
\* exactly when the line has more than max_chars characters, and a line of
\* at most max_chars characters is returned unchanged.
C15_EllipsisIffLonger ==
  (trunc.op = "line" /\ ~trunc.panicked)
    => /\ EndsWithEllipsis(trunc.result) <=> Len(trunc.line) > trunc.max_chars
       /\ Len(trunc.line) <= trunc.max_chars => trunc.result = trunc.line

\* C16: no call of truncate_head, truncate_tail or truncate_line panics,
\* whatever the text and the budgets: each returns a result.
C16_TruncationTotal ==
  trunc.op \in {"head", "tail", "line"} => ~trunc.panicked

C16_Witness ==
  /\ trunc.op = "tail"
  /\ trunc.input = <<"a", "rsq">>
  /\ trunc.max_lines = 0
  /\ trunc.max_bytes = 2
  /\ ~trunc.panicked
  /\ trunc.result.content = <<>>

\* the call went through the fuzzy phase and its edit was written
FuzzyEdited(k) == Settled(k) /\ k.result.kind = "ok" /\ k.result.method = "fuzzy"

\* the number of characters of D before its j-th line break (all of D when
\* it has fewer than j)
CharsBeforeBreak(D, j) ==
  LET breaks == {i \in 1..Len(D) : D[i] = "nl"}
      upto(i) == Cardinality({b \in breaks : b <= i})
  IN  IF Cardinality(breaks) < j THEN Len(D)
      ELSE (CHOOSE i \in breaks : upto(i) = j) - 1

\* D with its lines k .. k+n-1 (0-based, without the break that ends the
\* last of them) replaced by new
ReplaceLineRange(D, k, n, new) ==
  LET start == IF k = 0 THEN 0 ELSE Min(CharsBeforeBreak(D, k) + 1, Len(D))
      end == IF CharsBeforeBreak(D, k + n) < start THEN start ELSE CharsBeforeBreak(D, k + n)
  IN  SubSeq(D, 1, start) \o new \o SubSeq(D, end + 1, Len(D))

\* the 0-based line of the normalized document on which the one normalized
\* occurrence of old starts
MatchLine(D, old) ==
  LET norm == normalize_for_fuzzy(D)
      pos == match_indices(norm, normalize_for_fuzzy(old))[1]
  IN  Cardinality({i \in 1..pos : norm[i] = "nl"})

\* C18: after a fuzzy edit whose normalized match starts on line k of the
\* normalized document, the updated document is the original with exactly
\* its lines k .. k+n-1 replaced by new, n being the line count of old.
C18_FuzzyReplacesMatchedLines ==
  \A c \in DOMAIN calls :
    LET k == calls[c]
        D == fs0[k.resolved]
    IN  FuzzyEdited(k)
          => fs[k.resolved] = ReplaceLineRange(D, MatchLine(D, k.old), Len(Lines(k.old)), k.new)

\* C19: after a successful edit the updated document is the original with
\* one span of it replaced by new: every character outside that span is the
\* original's own.
C19_OnlyTargetSpanChanges ==
  \A c \in DOMAIN calls :
    LET k == calls[c]
        D == fs0[k.resolved]
    IN  (Settled(k) /\ k.result.kind = "ok")
          => \E i \in 0..Len(D) : \E j \in i..Len(D) :
               fs[k.resolved] = SubSeq(D, 1, i) \o k.new \o SubSeq(D, j + 1, Len(D))

\* C20: a document and its normalized form have the same number of lines.
C20_NormalizeKeepsLineCount ==
  \A c \in DOMAIN calls :
    LET k == calls[c]
    IN  (Settled(k) /\ k.result.kind \in {"ok", "not_found", "ambiguous_fuzzy"})
          => Len(Lines(normalize_for_fuzzy(k.content))) = Len(Lines(k.content))

\* what execute returns, and what it leaves stored at its path, when it
\* runs on document D with no other call in flight and no storage failure
AloneOutcome(D, old, new, path) ==
  LET plan == ExactPhase(D, old, new)
  IN  IF plan.kind = "write"
      THEN [kind |-> "ok", method |-> plan.method, stored |-> plan.new_content,
            content |-> unified_diff(D, plan.new_content, path)]
      ELSE [kind |-> plan.kind, method |-> "none", stored |-> D, content |-> <<>>]

\* no other call has been given the path of call c
OwnPath(c) == \A d \in DOMAIN calls \ {c} : calls[d].path # calls[c].path

\* C17: calls in flight together on different paths do not interfere: in
\* every interleaving a call that has returned has the outcome it would
\* have alone on the document its path held at the start, that path holds
\* what the call alone would leave there, and a path no call has written
\* holds its document unchanged.
C17_DifferentPathsIndependent ==
  /\ \A c \in DOMAIN calls :
       LET k == calls[c]
           alone == AloneOutcome(fs0[k.resolved], k.old, k.new, k.path)
       IN  (Settled(k) /\ OwnPath(c))
             => /\ k.result.kind = alone.kind
                /\ k.result.method = alone.method
                /\ k.result.content = alone.content
                /\ fs[k.resolved] = alone.stored
  /\ \A p \in DOMAIN fs :
       (\A c \in DOMAIN calls : ~(calls[c].resolved = p /\ calls[c].result.kind = "ok"))
         => fs[p] = fs0[p]

\* call 1 has returned with its edit written to one document while call 2
\* is in flight on the other, between its read and its write
C17_Witness ==
  /\ Settled(calls[1])
  /\ calls[1].result.kind = "ok"
  /\ calls[1].result.method = "fuzzy"
  /\ calls[1].path = <<"f">>
  /\ fs[calls[1].resolved] # fs0[calls[1].resolved]
  /\ calls[2].pc = "write"
  /\ calls[2].path = <<"g">>
  /\ calls[2].new_content # fs[calls[2].resolved]

\* the first n lines of the text of a truncation call, joined by a newline
FirstLinesJoined(n) == Join(SubSeq(Lines(trunc.input), 1, n))

\* the last n lines of the text of a truncation call, joined by a newline
LastLinesJoined(n) ==
  LET ls == Lines(trunc.input) IN Join(SubSeq(ls, Len(ls) - n + 1, Len(ls)))

\* the lines either budget of a truncation call lets through at most
LinesAllowed == Min(trunc.max_lines, Len(Lines(trunc.input)))

\* the largest number of leading lines that, joined, fit the byte budget
WholeLinesKept ==
  CHOOSE k \in 0..LinesAllowed :
    /\ StrLen(FirstLinesJoined(k)) <= trunc.max_bytes
    /\ \A j \in 0..LinesAllowed : StrLen(FirstLinesJoined(j)) <= trunc.max_bytes => j <= k

\* C21 as stated: the content of truncate_head is always the first k lines
\* joined by a newline, k the largest count within both budgets.
C21_HeadKeepsWholeLines ==
  trunc.op = "head" => trunc.result.content = FirstLinesJoined(WholeLinesKept)

\* C21: when the text exceeds a budget, the content of truncate_head is the
\* first k lines joined by a newline, k the largest count within both
\* budgets; the line that would overflow the byte budget is left out whole.
C21_HeadKeepsWholeLinesWhenCut ==
  (trunc.op = "head" /\ ~WithinBudgets)
    => trunc.result.content = FirstLinesJoined(WholeLinesKept)

C21_Witness ==
  /\ trunc.op = "head"
  /\ ~WithinBudgets
  /\ trunc.input = <<"a", "nl", "rsq", "nl", "a">>
  /\ trunc.max_lines = 3
  /\ trunc.max_bytes = 4
  /\ trunc.result.content = <<"a">>
  /\ trunc.result.truncated_by = "Bytes"

\* C22: when the last lines truncate_tail selects, joined, exceed the byte
\* budget, its content is the longest suffix of that join, in whole
\* characters, of at most max_bytes bytes, and the cut reason is Bytes.
C22_TailKeepsLongestSuffix ==
  (trunc.op = "tail" /\ StrLen(LastLinesJoined(LinesAllowed)) > trunc.max_bytes)
    => LET joined == LastLinesJoined(LinesAllowed)
           fits(i) == StrLen(SubSeq(joined, i + 1, Len(joined))) <= trunc.max_bytes
           first == CHOOSE i \in 0..Len(joined) :
                      fits(i) /\ \A j \in 0..Len(joined) : fits(j) => i <= j
       IN  /\ trunc.result.content = SubSeq(joined, first + 1, Len(joined))
           /\ trunc.result.truncated_by = "Bytes"

C22_Witness ==
  /\ trunc.op = "tail"
  /\ trunc.input = <<"a", "nl", "a", "rsq", "a">>
  /\ trunc.max_lines = 1
  /\ trunc.max_bytes = 3
  /\ trunc.result.content = <<"a">>
  /\ trunc.result.truncated_by = "Bytes"

\* the text of a truncation call exceeds the line budget and the byte budget
OverBothBudgets ==
  /\ Len(Lines(trunc.input)) > trunc.max_lines
  /\ StrLen(trunc.input) > trunc.max_bytes

\* C23: for a text over both budgets the cut reason is Bytes exactly when
\* the max_lines lines in scan direction, joined, still exceed max_bytes
\* (the first ones for truncate_head, the last ones for truncate_tail), and
\* Lines otherwise.
C23_BytesOnlyWhenLinesOverflow ==
  (trunc.op \in {"head", "tail"} /\ OverBothBudgets)
    => LET joined == IF trunc.op = "head" THEN FirstLinesJoined(trunc.max_lines)
                     ELSE LastLinesJoined(trunc.max_lines)
       IN  IF StrLen(joined) > trunc.max_bytes
           THEN trunc.result.truncated_by = "Bytes"
           ELSE trunc.result.truncated_by = "Lines"

C23_Witness ==
  /\ trunc.op = "head"
  /\ OverBothBudgets
  /\ trunc.input = <<"a", "nl", "a", "nl", "rsq">>
  /\ trunc.max_lines = 2
  /\ trunc.max_bytes = 3
  /\ trunc.result.truncated_by = "Lines"
  /\ trunc.result.content = <<"a", "nl", "a">>

\* C29: in every result of truncate_head and of truncate_tail output_bytes
\* is the byte length of the content and output_lines is the number of
\* lines of the content.
C29_MetadataDescribesContent ==
  trunc.op \in {"head", "tail"}
    => /\ trunc.result.output_bytes = StrLen(trunc.result.content)
       /\ trunc.result.output_lines = Len(Lines(trunc.result.content))

\* call c has returned success
Succeeded(c) == Settled(calls[c]) /\ calls[c].result.kind = "ok"

\* both calls edited the same path with success, each from the document the
\* path held before either wrote
BothEditedFromOriginal ==
  /\ Succeeded(1)
  /\ Succeeded(2)
  /\ calls[1].resolved = calls[2].resolved
  /\ calls[1].content = fs0[calls[1].resolved]
  /\ calls[2].content = fs0[calls[2].resolved]

\* C24: nothing serializes the read and the write of execute: when two
\* calls on the same path both read the document before either writes and
\* both report success, the stored document is the outcome of one of them
\* alone, that of the later write, and holds nothing of the other's edit.
C24_LaterWriteAlone ==
  BothEditedFromOriginal
    => LET p == calls[1].resolved
           alone(c) == AloneOutcome(fs0[p], calls[c].old, calls[c].new, calls[c].path).stored
       IN  fs[p] \in {alone(1), alone(2)}

\* both calls report success, the document is what call 2 alone leaves, and
\* the text call 1 put in place of its match is nowhere in it
C24_Witness ==
  /\ BothEditedFromOriginal
  /\ fs0[calls[1].resolved] = <<"apos", "rsq">>
  /\ calls[1].old = <<"apos">>
  /\ calls[1].new = <<"b">>
  /\ calls[2].old = <<"rsq">>
  /\ calls[2].new = <<>>
  /\ fs[calls[1].resolved] = <<"apos">>

\* the error outcomes of execute that are decided before its write
ErrorKindsBeforeWrite ==
  {"missing_path", "missing_old", "identical", "file_not_found", "read_failed",
   "ambiguous_exact", "ambiguous_fuzzy", "not_found"}

\* C25: a call of execute that returns an error decided before the write
\* leaves the storage layer as it was before the call.
C25_FailedEditWritesNothing ==
  \A c \in DOMAIN calls :
    (calls[c].pc = "done" /\ calls[c].result.kind \in ErrorKindsBeforeWrite) => fs = fs0

C25_Witness ==
  \E c \in DOMAIN calls :
    /\ calls[c].pc = "done"
    /\ calls[c].result.kind = "file_not_found"
    /\ fs = EmptyFs
    /\ fs0 = EmptyFs

\* the one normalized occurrence of old starts after the beginning of a
\* line of the normalized document, or ends before the end of one
MatchInsideLine(D, old) ==
  LET norm == normalize_for_fuzzy(D)
      norm_old == normalize_for_fuzzy(old)
      pos == match_indices(norm, norm_old)[1]
      end == pos + Len(norm_old)
  IN  \/ pos > 0 /\ norm[pos] # "nl"
      \/ end < Len(norm) /\ norm[end + 1] # "nl"

\* C26: a fuzzy edit whose match starts or ends inside a line replaces only
\* the matched text: the updated document is the original with one span
\* that normalizes to the normalized old replaced by new, the rest of the
\* lines it lies on kept.
C26_FuzzyKeepsRestOfLine ==
  \A c \in DOMAIN calls :
    LET k == calls[c]
        D == fs0[k.resolved]
    IN  (FuzzyEdited(k) /\ MatchInsideLine(D, k.old))
          => \E i \in 0..Len(D) : \E j \in i..Len(D) :
               /\ normalize_for_fuzzy(SubSeq(D, i + 1, j)) = normalize_for_fuzzy(k.old)
               /\ fs[k.resolved] = SubSeq(D, 1, i) \o k.new \o SubSeq(D, j + 1, Len(D))

\* C30: an edit whose old text normalizes to the empty text and does not
\* occur in the document does not succeed and writes nothing.
C30_BlankOldNeverSucceeds ==
  \A c \in DOMAIN calls :
    LET k == calls[c]
    IN  (/\ Settled(k)
         /\ normalize_for_fuzzy(k.old) = <<>>
         /\ ScanCount(fs0[k.resolved], k.old) = 0)
          => k.result.kind # "ok" /\ fs = fs0

\* C27: a continuation hint of the read tool names an offset beyond the
\* offset of the call that gave it and a limit of at least one line, so
\* that following it reads on.
C27_HintAdvances ==
  (tool.op = "read" /\ tool.result.hint.some)
    => /\ tool.result.hint.offset > tool.offset
       /\ tool.result.hint.limit >= 1

IsDigit(c) == \E d \in 0..9 : Digit(d) = c

\* a line of grep's output that reports a match: a path, ':', the digits of
\* the line number, ':'
IsMatchLine(l) ==
  \E i \in 1..Len(l) : \E j \in (i + 2)..Len(l) :
    /\ l[i] = ":"
    /\ l[j] = ":"
    /\ \A k \in 1..(i - 1) : l[k] # ":"
    /\ \A k \in (i + 1)..(j - 1) : IsDigit(l[k])

MatchLinesIn(text) == Cardinality({i \in 1..Len(Lines(text)) : IsMatchLine(Lines(text)[i])})

\* C28: when the output grep collected is within the byte budget, every
\* match counted in the matches metadata is a match line of the content
\* returned.
C28_EveryCountedMatchShown ==
  (/\ tool.op = "grep"
   /\ tool.result.kind = "ok"
   /\ StrLen(tool.result.collected) <= GrepByteBudget)
    => MatchLinesIn(tool.result.content) = tool.result.matches

====
